---- MODULE Spec2Model ----
(***************************************************************************)
(* A model of natsort (src/natsort/natsort.py): the regular expressions    *)
(* that locate numbers, the tokenizer _number_finder, the normaliser       *)
(* _py3_safe, the recursive key builder _natsort_key, the generator        *)
(* natsort_keygen, and the sorting functions natsorted, index_natsorted     *)
(* and order_by_index.                                                     *)
(*                                                                         *)
(* A string is a sequence of one-character strings.  A number is a record  *)
(* [kind, neg, digs, e10] standing for (-1)^neg * digs * 10^e10, digs a    *)
(* sequence of decimal digits without leading zeros (and, for a float,     *)
(* without trailing zeros), so that numbers of any length are represented  *)
(* without overflow.                                                       *)
(***************************************************************************)
EXTENDS Integers, Sequences, FiniteSets

VARIABLES gen, val, out, parsed_list, new_list, left, right, cmp,
          sort_args, sorted_out, index_out

\* What natsorted and index_natsorted were called with and gave.
sortvars == <<sort_args, sorted_out, index_out>>

vars == <<gen, val, out, parsed_list, new_list, left, right, cmp, sortvars>>

(***************************************************************************)
(* Bounds of the model.                                                    *)
(***************************************************************************)
MaxLen == 4
MaxSeq == 2
MaxDepth == 3
MaxTokens == 4
MaxDigits == 2
MaxRoundDigits == 20
MaxList == 3

(***************************************************************************)
(* Characters.                                                             *)
(***************************************************************************)
DigitChars == {"0", "1", "2", "3", "4", "5", "6", "7", "8", "9"}

\* \d
IsDigit(c) == c \in DigitChars

DigitValue(c) ==
    CASE c = "0" -> 0 [] c = "1" -> 1 [] c = "2" -> 2 [] c = "3" -> 3
      [] c = "4" -> 4 [] c = "5" -> 5 [] c = "6" -> 6 [] c = "7" -> 7
      [] c = "8" -> 8 [] c = "9" -> 9

IsSign(c) == c \in {"+", "-"}

\* The characters of the model in code point order.
CodePoints == <<"+", "-", ".", "0", "1", "2", "3", "4", "5", "6", "7", "8", "9",
                "A", "E", "H", "M", "N", "U", "a", "e", "h", "m", "n", "u">>

ord(c) == CHOOSE i \in 1..Len(CodePoints) : CodePoints[i] = c

\* str.upper on one character.
UpperChar(c) ==
    CASE c = "a" -> "A"
      [] c = "e" -> "E"
      [] c = "h" -> "H"
      [] c = "m" -> "M"
      [] c = "n" -> "N"
      [] c = "u" -> "U"
      [] OTHER -> c

SubStr(s, from, to) == [i \in 1..(to - from + 1) |-> s[from + i - 1]]

(***************************************************************************)
(* The regular expressions.  A pattern is [frac, sign, exp]:               *)
(*   frac:  \d*\.?\d+ instead of \d+                                       *)
(*   sign:  a leading [-+]?                                                *)
(*   exp:   a trailing (?:[eE][-+]?\d+)?                                   *)
(***************************************************************************)
float_sign_exp_re == [frac |-> TRUE, sign |-> TRUE, exp |-> TRUE]
float_nosign_exp_re == [frac |-> TRUE, sign |-> FALSE, exp |-> TRUE]
float_sign_noexp_re == [frac |-> TRUE, sign |-> TRUE, exp |-> FALSE]
float_nosign_noexp_re == [frac |-> TRUE, sign |-> FALSE, exp |-> FALSE]
int_nosign_re == [frac |-> FALSE, sign |-> FALSE, exp |-> FALSE]
int_sign_re == [frac |-> FALSE, sign |-> TRUE, exp |-> FALSE]

\* The length of the run of digits of s that starts at position p.
RECURSIVE DigitRun(_, _)
DigitRun(s, p) ==
    IF p <= Len(s) /\ IsDigit(s[p]) THEN 1 + DigitRun(s, p + 1) ELSE 0

\* [-+]? at p: the sign is taken when there is one (without it the rest
\* of the pattern would have to start at the sign character, and fails).
SignLen(regex, s, p) ==
    IF regex.sign /\ p <= Len(s) /\ IsSign(s[p]) THEN 1 ELSE 0

\* \d+ (int) or \d*\.?\d+ (float) at q, greedy with backtracking: all the
\* digits, then a point followed by at least one digit; failing that, the
\* digits alone.  0 when there is no match.
MantissaLen(regex, s, q) ==
    LET d == DigitRun(s, q)
        frac == IF regex.frac /\ q + d <= Len(s) /\ s[q + d] = "."
                THEN DigitRun(s, q + d + 1) ELSE 0
    IN  IF frac >= 1 THEN d + 1 + frac ELSE d

\* (?:[eE][-+]?\d+)? at m: the exponent when it is complete, else nothing.
ExponentLen(regex, s, m) ==
    IF regex.exp /\ m <= Len(s) /\ s[m] \in {"e", "E"}
    THEN LET es == IF m + 1 <= Len(s) /\ IsSign(s[m + 1]) THEN 1 ELSE 0
             ed == DigitRun(s, m + 1 + es)
         IN  IF ed >= 1 THEN 1 + es + ed ELSE 0
    ELSE 0

\* The length of the match of regex in s at position p, 0 when none
\* (a match is never empty: every pattern needs one digit).
MatchLen(regex, s, p) ==
    LET sl == SignLen(regex, s, p)
        ml == MantissaLen(regex, s, p + sl)
    IN  IF ml = 0 THEN 0 ELSE sl + ml + ExponentLen(regex, s, p + sl + ml)

\* regex.match(x): a match at the start of x.
regex_match(regex, x) == MatchLen(regex, x, 1) > 0

\* regex.split(s) for a pattern that is one capturing group: the text before
\* each match, the match, ..., the text after the last match.  pos is where
\* the current text piece starts, p the position searched.
RECURSIVE SplitFrom(_, _, _, _)
SplitFrom(regex, s, pos, p) ==
    IF p > Len(s) THEN << SubStr(s, pos, Len(s)) >>
    ELSE LET n == MatchLen(regex, s, p)
         IN  IF n = 0 THEN SplitFrom(regex, s, pos, p + 1)
             ELSE << SubStr(s, pos, p - 1), SubStr(s, p, p + n - 1) >>
                  \o SplitFrom(regex, s, p + n, p + n)

regex_split(regex, s) == SplitFrom(regex, s, 1, 1)

(***************************************************************************)
(* Numbers: Python's int (unbounded) and float (IEEE binary64).            *)
(***************************************************************************)
NoNum == [kind |-> "none", neg |-> FALSE, digs |-> <<>>, e10 |-> 0]

MkNum(kind, neg, digs, e10) ==
    [kind |-> kind, neg |-> neg, digs |-> digs, e10 |-> e10]

\* The digits of s at positions from..to, as numbers.
Digits(s, from, to) == [i \in 1..(to - from + 1) |-> DigitValue(s[from + i - 1])]

RECURSIVE StripLeading(_)
StripLeading(ds) ==
    IF ds # <<>> /\ Head(ds) = 0 THEN StripLeading(Tail(ds)) ELSE ds

\* The number of zeros that end ds.
RECURSIVE TrailingZeros(_)
TrailingZeros(ds) ==
    IF ds # <<>> /\ ds[Len(ds)] = 0
    THEN 1 + TrailingZeros(SubSeq(ds, 1, Len(ds) - 1)) ELSE 0

Zeros(n) == [i \in 1..n |-> 0]

\* The value of a short run of digits (an exponent) as an integer.
RECURSIVE SmallValue(_)
SmallValue(ds) ==
    IF ds = <<>> THEN 0
    ELSE 10 * SmallValue(SubSeq(ds, 1, Len(ds) - 1)) + ds[Len(ds)]

\* a < b, for digit sequences without leading zeros.
RECURSIVE DigLexLess(_, _, _)
DigLexLess(a, b, i) ==
    IF i > Len(a) THEN FALSE
    ELSE IF a[i] # b[i] THEN a[i] < b[i]
    ELSE DigLexLess(a, b, i + 1)

DigLess(a, b) ==
    IF Len(a) # Len(b) THEN Len(a) < Len(b) ELSE DigLexLess(a, b, 1)

Odd(ds) == ds # <<>> /\ ds[Len(ds)] % 2 = 1

\* ds divided by two, the remainder dropped: what is carried into a digit
\* is the parity of the digit before it.
Half(ds) ==
    StripLeading(SubSeq([i \in 1..Len(ds) |->
                    (10 * (IF i > 1 THEN ds[i - 1] % 2 ELSE 0) + ds[i]) \div 2],
                    1, Len(ds)))

\* ds times two: a digit takes a carry when the next one is at least 5.
Double(ds) ==
    StripLeading(SubSeq([i \in 1..(Len(ds) + 1) |->
                    (IF i > 1 THEN (2 * ds[i - 1]) % 10 ELSE 0)
                    + (IF i <= Len(ds) /\ ds[i] >= 5 THEN 1 ELSE 0)],
                    1, Len(ds) + 1))

\* The digits of (ds from position i on) + c, led by the carry out.
RECURSIVE AddFrom(_, _, _)
AddFrom(ds, i, c) ==
    IF i > Len(ds) THEN << c >>
    ELSE LET rest == AddFrom(ds, i + 1, c)
             cur == ds[i] + rest[1]
         IN  << cur \div 10, cur % 10 >> \o Tail(rest)

Inc(ds) == StripLeading(AddFrom(ds, 1, 1))

RECURSIVE DoubleTimes(_, _)
DoubleTimes(ds, e) ==
    IF e = 0 \/ ds = <<>> THEN ds ELSE DoubleTimes(Double(ds), e - 1)

\* 2^53: a float holds 53 bits of an integer.
TwoPow53 == <<9, 0, 0, 7, 1, 9, 9, 2, 5, 4, 7, 4, 0, 9, 9, 2>>

\* The integer q * 2^e (with the bits shifted out summarised by guard and
\* sticky) rounded to 53 bits, to nearest, ties to even.
RECURSIVE RoundShift(_, _, _, _)
RoundShift(q, guard, sticky, e) ==
    IF DigLess(q, TwoPow53)
    THEN LET up == guard /\ (sticky \/ Odd(q))
         IN  DoubleTimes(IF up THEN Inc(q) ELSE q, e)
    ELSE RoundShift(Half(q), Odd(q), sticky \/ guard, e + 1)

\* The float nearest to the integer ds, again as an integer.
RoundInt(ds) == RoundShift(ds, FALSE, FALSE, 0)

\* int(x) for x = [-+]?\d+ : the sign and the value of the digits; leading
\* zeros do not count and -0 is 0.
int(x) ==
    LET sl == IF IsSign(x[1]) THEN 1 ELSE 0
        ds == StripLeading(Digits(x, 1 + sl, Len(x)))
    IN  MkNum("int", x[1] = "-" /\ ds # <<>>, ds, 0)

\* float(x) for x = [-+]?\d*\.?\d+([eE][-+]?\d+)? : the decimal value, rounded
\* to the nearest float when it is an integer of more than 53 bits.  An
\* integer of up to MaxRoundDigits digits is named by the exact value of its
\* float; any other number by the decimal that was read, which names one float
\* as long as it has at most 15 significant digits and lies within the range
\* of a float (the inputs of the model do).
float(x) ==
    LET sl == IF IsSign(x[1]) THEN 1 ELSE 0
        q == 1 + sl
        d == DigitRun(x, q)
        dot == q + d <= Len(x) /\ x[q + d] = "."
        f == IF dot THEN DigitRun(x, q + d + 1) ELSE 0
        m == IF dot THEN q + d + 1 + f ELSE q + d
        es == IF m + 1 <= Len(x) /\ IsSign(x[m + 1]) THEN 1 ELSE 0
        ev == IF m <= Len(x)
              THEN (IF es = 1 /\ x[m + 1] = "-" THEN -1 ELSE 1)
                   * SmallValue(Digits(x, m + 1 + es, Len(x)))
              ELSE 0
        all == StripLeading(Digits(x, q, q + d - 1)
                            \o (IF dot THEN Digits(x, q + d + 1, q + d + f)
                                ELSE <<>>))
        tz == TrailingZeros(all)
        sig == SubSeq(all, 1, Len(all) - tz)
        e10 == ev - f + tz
        neg == x[1] = "-"
    IN  IF all = <<>> THEN MkNum("float", neg, <<>>, 0)
        ELSE IF e10 >= 0 /\ Len(sig) + e10 >= Len(TwoPow53)
                /\ Len(sig) + e10 <= MaxRoundDigits
        THEN LET r == RoundInt(sig \o Zeros(e10))
                 rz == TrailingZeros(r)
             IN  MkNum("float", neg, SubSeq(r, 1, Len(r) - rz), rz)
        ELSE MkNum("float", neg, sig, e10)

\* The order of two numbers: -1, 0 or 1.
MagDigit(x, i) == IF i <= Len(x.digs) THEN x.digs[i] ELSE 0

RECURSIVE MagLexCmp(_, _, _, _)
MagLexCmp(x, y, i, n) ==
    IF i > n THEN 0
    ELSE IF MagDigit(x, i) # MagDigit(y, i)
    THEN (IF MagDigit(x, i) < MagDigit(y, i) THEN -1 ELSE 1)
    ELSE MagLexCmp(x, y, i + 1, n)

MagCmp(x, y) ==
    IF x.digs = <<>> \/ y.digs = <<>>
    THEN (IF x.digs = y.digs THEN 0 ELSE IF x.digs = <<>> THEN -1 ELSE 1)
    ELSE IF Len(x.digs) + x.e10 # Len(y.digs) + y.e10
    THEN (IF Len(x.digs) + x.e10 < Len(y.digs) + y.e10 THEN -1 ELSE 1)
    ELSE MagLexCmp(x, y, 1, IF Len(x.digs) > Len(y.digs)
                            THEN Len(x.digs) ELSE Len(y.digs))

NumCmp(x, y) ==
    LET xn == x.neg /\ x.digs # <<>>
        yn == y.neg /\ y.digs # <<>>
    IN  IF xn # yn THEN (IF xn THEN -1 ELSE 1)
        ELSE IF xn THEN MagCmp(y, x) ELSE MagCmp(x, y)
(***************************************************************************)
(* Values (what is sorted) and the elements of a key.                      *)
(***************************************************************************)
StrVal(s) == [tag |-> "str", s |-> s, n |-> NoNum, items |-> <<>>]
NumVal(n) == [tag |-> "num", s |-> <<>>, n |-> n, items |-> <<>>]
NoneVal == [tag |-> "None", s |-> <<>>, n |-> NoNum, items |-> <<>>]
SeqVal(items) == [tag |-> "seq", s |-> <<>>, n |-> NoNum, items |-> items]

Text(s) == [ty |-> "text", s |-> s, n |-> NoNum, sub |-> <<>>]
Numeric(n) == [ty |-> "num", s |-> <<>>, n |-> n, sub |-> <<>>]
NoneTok == [ty |-> "None", s |-> <<>>, n |-> NoNum, sub |-> <<>>]
SubKey(k) == [ty |-> "key", s |-> <<>>, n |-> NoNum, sub |-> k]

\* Number types.
number_types == {"float", "int"}

\* type(x) in ntypes
\* A number of the one type float.
IsNumberType_float(x) == x.ty = "num" /\ x.n.kind = "float"

IsNumberType(x) == x.ty = "num" /\ x.n.kind \in number_types

\* _py3_safe that inserts nothing.
_py3_safe_asis(pl) == pl

(***************************************************************************)
(* _py3_safe: insert '' between two numbers.                               *)
(***************************************************************************)
RECURSIVE Py3SafeFrom(_, _)
Py3SafeFrom(pl, i) ==
    IF i > Len(pl) THEN <<>>
    ELSE (IF IsNumberType(pl[i - 1]) /\ IsNumberType(pl[i])
          THEN << Text(<<>>) >> ELSE <<>>)
         \o << pl[i] >> \o Py3SafeFrom(pl, i + 1)

_py3_safe(pl) ==
    IF Len(pl) < 2 THEN pl ELSE << pl[1] >> \o Py3SafeFrom(pl, 2)

(***************************************************************************)
(* _number_finder: split the string by numbers.                            *)
(***************************************************************************)
\* Every number read as a float.
NumConv_float(numconv, x) == float(x)

NumConv(numconv, x) == IF numconv = "float" THEN float(x) ELSE int(x)

\* [numconv(x) if r(x) else x for x in s if x]
RECURSIVE ConvertFrom(_, _, _, _)
ConvertFrom(sp, i, regex, numconv) ==
    IF i > Len(sp) THEN <<>>
    ELSE (IF sp[i] = <<>> THEN <<>>
          ELSE IF regex_match(regex, sp[i])
          THEN << Numeric(NumConv(numconv, sp[i])) >>
          ELSE << Text(sp[i]) >>)
         \o ConvertFrom(sp, i + 1, regex, numconv)

\* The list as it is, whatever its first element.
LeadWithString_never(s) == s

\* try: s[0][0] except TypeError: s = [''] + s
LeadWithString(s) ==
    IF s[1].ty = "text" THEN s ELSE << Text(<<>>) >> \o s

\* _number_finder without the return of a split that found no number: the
\* empty pieces are dropped from it as from any other.
_number_finder_noshortcut(s, regex, numconv, py3_safe) ==
    LET conv == ConvertFrom(regex_split(regex, s), 1, regex, numconv)
    IN  IF conv = <<>> THEN <<>>
        ELSE IF py3_safe THEN _py3_safe(LeadWithString(conv))
        ELSE LeadWithString(conv)

_number_finder(s, regex, numconv, py3_safe) ==
    LET sp == regex_split(regex, s)
    IN  IF Len(sp) = 1 THEN << Text(sp[1]) >>
        ELSE LET lead == LeadWithString(ConvertFrom(sp, 1, regex, numconv))
             IN  IF py3_safe THEN _py3_safe(lead) ELSE lead

(***************************************************************************)
(* The table that selects the regex and the number conversion function.    *)
(* The values of number_type, signed and exp are written as Python writes  *)
(* them: "float", "int", "None", "str", "True", "False", "1", "[]".        *)
(***************************************************************************)
ChooserEntry(number_type, signed, exp, regex, numconv) ==
    [number_type |-> number_type, signed |-> signed, exp |-> exp,
     regex |-> regex, numconv |-> numconv]

\* The table with None following the signed flag as int does.
regex_and_num_function_chooser_signed == <<
    ChooserEntry("float", "True",  "True",  float_sign_exp_re,     "float"),
    ChooserEntry("float", "True",  "False", float_sign_noexp_re,   "float"),
    ChooserEntry("float", "False", "True",  float_nosign_exp_re,   "float"),
    ChooserEntry("float", "False", "False", float_nosign_noexp_re, "float"),
    ChooserEntry("int",   "True",  "True",  int_sign_re,   "int"),
    ChooserEntry("int",   "True",  "False", int_sign_re,   "int"),
    ChooserEntry("int",   "False", "True",  int_nosign_re, "int"),
    ChooserEntry("int",   "False", "False", int_nosign_re, "int"),
    ChooserEntry("None",  "True",  "True",  int_sign_re,   "int"),
    ChooserEntry("None",  "True",  "False", int_sign_re,   "int"),
    ChooserEntry("None",  "False", "True",  int_nosign_re, "int"),
    ChooserEntry("None",  "False", "False", int_nosign_re, "int") >>

regex_and_num_function_chooser == <<
    ChooserEntry("float", "True",  "True",  float_sign_exp_re,     "float"),
    ChooserEntry("float", "True",  "False", float_sign_noexp_re,   "float"),
    ChooserEntry("float", "False", "True",  float_nosign_exp_re,   "float"),
    ChooserEntry("float", "False", "False", float_nosign_noexp_re, "float"),
    ChooserEntry("int",   "True",  "True",  int_sign_re,   "int"),
    ChooserEntry("int",   "True",  "False", int_sign_re,   "int"),
    ChooserEntry("int",   "False", "True",  int_nosign_re, "int"),
    ChooserEntry("int",   "False", "False", int_nosign_re, "int"),
    ChooserEntry("None",  "True",  "True",  int_nosign_re, "int"),
    ChooserEntry("None",  "True",  "False", int_nosign_re, "int"),
    ChooserEntry("None",  "False", "True",  int_nosign_re, "int"),
    ChooserEntry("None",  "False", "False", int_nosign_re, "int") >>

\* A list cannot be hashed, so it cannot be part of a dict key.
Hashable(v) == v # "[]"

\* Python's ==, on the values above: 1 == True.
PyEq(v, w) == (IF v = "1" THEN "True" ELSE v) = (IF w = "1" THEN "True" ELSE w)

ChooserIndex(number_type, signed, exp) ==
    { i \in 1..Len(regex_and_num_function_chooser) :
        /\ PyEq(regex_and_num_function_chooser[i].number_type, number_type)
        /\ PyEq(regex_and_num_function_chooser[i].signed, signed)
        /\ PyEq(regex_and_num_function_chooser[i].exp, exp) }

(***************************************************************************)
(* The functions given as key.                                             *)
(***************************************************************************)
Applied(v) == [raised |-> "", val |-> v]
KeyRaised(e) == [raised |-> e, val |-> NoneVal]

\* lambda x: x.upper()
upper(v) ==
    IF v.tag = "str" THEN Applied(StrVal([i \in 1..Len(v.s) |-> UpperChar(v.s[i])]))
    ELSE KeyRaised("AttributeError")

\* itemgetter(1)
itemgetter_1(v) ==
    CASE v.tag = "str" -> IF Len(v.s) >= 2 THEN Applied(StrVal(<< v.s[2] >>))
                          ELSE KeyRaised("IndexError")
      [] v.tag = "seq" -> IF Len(v.items) >= 2 THEN Applied(v.items[2])
                          ELSE KeyRaised("IndexError")
      [] OTHER -> KeyRaised("TypeError")

\* lambda x : key(itemgetter(1)(x)), for the key upper
upper_of_itemgetter_1(v) ==
    IF itemgetter_1(v).raised # "" THEN itemgetter_1(v)
    ELSE upper(itemgetter_1(v).val)

ApplyKey(key, v) ==
    CASE key = "upper" -> upper(v)
      [] key = "itemgetter(1)" -> itemgetter_1(v)
      [] key = "upper(itemgetter(1)(x))" -> upper_of_itemgetter_1(v)

(***************************************************************************)
(* _natsort_key.  The result records what the call returned or raised and  *)
(* counts what it did: lookups in the chooser, applications of key, and    *)
(* those of them below the top level.                                      *)
(***************************************************************************)
RECURSIVE Sum(_)
Sum(ns) == IF ns = <<>> THEN 0 ELSE Head(ns) + Sum(Tail(ns))

Returned(ret, lookups, key_calls, deep_key_calls) ==
    [raised |-> "", returned |-> "key", ret |-> ret, lookups |-> lookups,
     key_calls |-> key_calls, deep_key_calls |-> deep_key_calls]

Raised(e, lookups, key_calls, deep_key_calls) ==
    [raised |-> e, returned |-> "nothing", ret |-> <<>>, lookups |-> lookups,
     key_calls |-> key_calls, deep_key_calls |-> deep_key_calls]

\* The key handed on to the recursive calls.
RecursiveKey_same(key) == key

\* (val,)
AsIs_bare(v) == << IF v.tag = "num" THEN Numeric(v.n) ELSE NoneTok >>

\* The keys of the elements, last first.
SubKeys_reversed(subs) ==
    [i \in 1..Len(subs) |-> SubKey(subs[Len(subs) + 1 - i].ret)]

\* The key argument of the recursive calls.
RecursiveKey(key) == "None"

\* ('', val,)
AsIs(v) ==
    << Text(<<>>), IF v.tag = "num" THEN Numeric(v.n) ELSE NoneTok >>

\* tuple([... for x in val]): the keys of the elements, in their order.
SubKeys(subs) == [i \in 1..Len(subs) |-> SubKey(subs[i].ret)]

RECURSIVE _natsort_key(_, _, _, _, _, _, _)
_natsort_key(v, key, number_type, signed, exp, py3_safe, depth) ==
    LET found == ChooserIndex(number_type, signed, exp)
    IN  IF ~(Hashable(number_type) /\ Hashable(signed) /\ Hashable(exp))
        THEN Raised("TypeError: unhashable type", 1, 0, 0)
        ELSE IF found = {}
        THEN IF number_type \notin {"float", "int"} /\ number_type # "None"
             THEN Raised("ValueError: 'number_type' invalid", 1, 0, 0)
             ELSE IF ~(PyEq(signed, "True") \/ PyEq(signed, "False"))
             THEN Raised("ValueError: 'signed' invalid", 1, 0, 0)
             ELSE IF ~(PyEq(exp, "True") \/ PyEq(exp, "False"))
             THEN Raised("ValueError: 'exp' invalid", 1, 0, 0)
             ELSE [Raised("", 1, 0, 0) EXCEPT !.returned = "None"]
        ELSE
        LET entry == regex_and_num_function_chooser[CHOOSE i \in found : TRUE]
            k == IF key # "None" THEN 1 ELSE 0
            dk == IF key # "None" /\ depth > 0 THEN 1 ELSE 0
            applied == IF key # "None" THEN ApplyKey(key, v) ELSE Applied(v)
            w == applied.val
        IN  IF applied.raised # "" THEN Raised(applied.raised, 1, k, dk)
            ELSE IF w.tag = "str"
            THEN Returned(_number_finder(w.s, entry.regex, entry.numconv, py3_safe),
                          1, k, dk)
            ELSE IF w.tag = "seq"
            THEN \* The recursive calls look up the same configuration and are
                 \* given no key: none of them raises.
                 LET subs == [i \in 1..Len(w.items) |->
                                _natsort_key(w.items[i], RecursiveKey(key),
                                             number_type, signed, exp, py3_safe,
                                             depth + 1)]
                 IN  Returned(SubKeys(subs),
                       1 + Sum([i \in 1..Len(subs) |-> subs[i].lookups]),
                       k + Sum([i \in 1..Len(subs) |-> subs[i].key_calls]),
                       dk + Sum([i \in 1..Len(subs) |-> subs[i].deep_key_calls]))
            ELSE Returned(AsIs(w), 1, k, dk)
(***************************************************************************)
(* The comparison of two keys by sorted: Python's < on tuples.  The first  *)
(* elements that are not equal decide, and < between a str and a number,   *)
(* or on None, raises TypeError; a tuple that is a prefix of the other is  *)
(* the lesser.                                                             *)
(***************************************************************************)
RECURSIVE StrLessFrom(_, _, _)
StrLessFrom(s, t, i) ==
    IF i > Len(s) \/ i > Len(t) THEN Len(s) < Len(t)
    ELSE IF s[i] # t[i] THEN ord(s[i]) < ord(t[i])
    ELSE StrLessFrom(s, t, i + 1)

RECURSIVE ElemEq(_, _)
RECURSIVE ElemLess(_, _)
RECURSIVE TupleLessFrom(_, _, _)
TupleLessFrom(a, b, i) ==
    IF i > Len(a) \/ i > Len(b) THEN (IF Len(a) < Len(b) THEN "True" ELSE "False")
    ELSE IF ElemEq(a[i], b[i]) THEN TupleLessFrom(a, b, i + 1)
    ELSE ElemLess(a[i], b[i])

\* x == y
ElemEq(x, y) ==
    /\ x.ty = y.ty
    /\ CASE x.ty = "text" -> x.s = y.s
         [] x.ty = "num" -> NumCmp(x.n, y.n) = 0
         [] x.ty = "key" -> /\ Len(x.sub) = Len(y.sub)
                            /\ \A i \in 1..Len(x.sub) : ElemEq(x.sub[i], y.sub[i])
         [] OTHER -> TRUE

\* x < y: "True", "False" or "TypeError"
ElemLess(x, y) ==
    CASE x.ty = "text" /\ y.ty = "text" ->
            IF StrLessFrom(x.s, y.s, 1) THEN "True" ELSE "False"
      [] x.ty = "num" /\ y.ty = "num" ->
            IF NumCmp(x.n, y.n) < 0 THEN "True" ELSE "False"
      [] x.ty = "key" /\ y.ty = "key" -> TupleLessFrom(x.sub, y.sub, 1)
      [] OTHER -> "TypeError"

TupleLess(a, b) == TupleLessFrom(a, b, 1)

(***************************************************************************)
(* The sort of the interpreter: sorted and list.sort with a key.  The keys *)
(* of all the elements are computed first; the list is reversed before and *)
(* after when reverse is set; a list this short is sorted by finding the   *)
(* run it starts with (reversed when strictly descending) and inserting    *)
(* the other elements by binary search.  A comparison of two keys can      *)
(* raise the TypeError of two types that have no order, worded as the      *)
(* interpreter words it.  An order is a sequence of positions of the list. *)
(***************************************************************************)
Identity(n) == [i \in 1..n |-> i]

Reversed(p) == [i \in 1..Len(p) |-> p[Len(p) + 1 - i]]

\* The wordings of the TypeError of x < y: Python 3.0 to 3.5, and 3.6 on.
Interpreters ==
    {"TypeError: unorderable types", "TypeError: '<' not supported between instances"}

\* Any error taken for the one of two types that have no order.
unorderable_types_in_any(e) == TRUE

\* 'unorderable types' in str(e), for the errors of the model
unorderable_types_in(e) == e = "TypeError: unorderable types"

\* The run the list starts with, looked for from place i on.
RECURSIVE RunFrom(_, _, _, _)
RunFrom(K, p, i, descending) ==
    IF i > Len(p) THEN [raised |-> FALSE, n |-> Len(p), descending |-> descending]
    ELSE IF TupleLess(K[p[i]], K[p[i - 1]]) = "TypeError"
    THEN [raised |-> TRUE, n |-> 0, descending |-> descending]
    ELSE IF (TupleLess(K[p[i]], K[p[i - 1]]) = "True") = descending
    THEN RunFrom(K, p, i + 1, descending)
    ELSE [raised |-> FALSE, n |-> i - 1, descending |-> descending]

count_run(K, p) ==
    IF TupleLess(K[p[2]], K[p[1]]) = "TypeError"
    THEN [raised |-> TRUE, n |-> 0, descending |-> FALSE]
    ELSE RunFrom(K, p, 3, TupleLess(K[p[2]], K[p[1]]) = "True")

\* The number of elements of p[1..r] the pivot goes after, l of them known.
RECURSIVE Bisect(_, _, _, _, _)
Bisect(K, p, pivot, l, r) ==
    IF l >= r THEN [raised |-> FALSE, at |-> l]
    ELSE LET m == l + ((r - l) \div 2)
             c == TupleLess(K[pivot], K[p[m + 1]])
         IN  IF c = "TypeError" THEN [raised |-> TRUE, at |-> 0]
             ELSE IF c = "True" THEN Bisect(K, p, pivot, l, m)
             ELSE Bisect(K, p, pivot, m + 1, r)

\* The element at place start + 1 moved to place at + 1.
Insert(p, at, start) ==
    SubSeq(p, 1, at) \o << p[start + 1] >> \o SubSeq(p, at + 1, start)
        \o SubSeq(p, start + 2, Len(p))

\* p[1..start] is sorted: insert the elements after it, one by one.  When a
\* comparison raises the list stays as it is by then.  (A set of one element
\* names a value that is computed once.)
RECURSIVE binarysort(_, _, _)
binarysort(K, p, start) ==
    IF start >= Len(p) THEN [raised |-> FALSE, order |-> p]
    ELSE CHOOSE done \in
           { IF b.raised THEN [raised |-> TRUE, order |-> p]
             ELSE binarysort(K, Insert(p, b.at, start), start + 1) :
               b \in { Bisect(K, p, p[start + 1], 0, start) } } : TRUE

\* The sort of a list of two elements or more in the order p0, K the keys.
sort_run(K, p0, run) ==
    IF run.raised THEN [raised |-> TRUE, order |-> p0]
    ELSE binarysort(K,
                    IF run.descending
                    THEN Reversed(SubSeq(p0, 1, run.n)) \o SubSeq(p0, run.n + 1, Len(p0))
                    ELSE p0,
                    run.n)

\* list.sort(key=..., reverse=reverse) of a list in the order p, ks the results
\* of the key function for its elements: what is raised and the order the
\* list is left in.
sort_keys(ks, p, reverse, interpreter) ==
    LET n == Len(ks)
        p0 == IF reverse THEN Reversed(p) ELSE p
    IN  IF \E i \in 1..n : ks[p[i]].raised # ""
        THEN [raised |-> ks[p[CHOOSE i \in 1..n :
                                  /\ ks[p[i]].raised # ""
                                  /\ \A j \in 1..(i - 1) : ks[p[j]].raised = ""]].raised,
              order |-> p]
        ELSE IF n < 2 THEN [raised |-> "", order |-> p]
        ELSE CHOOSE r \in
               { [raised |-> IF done.raised THEN interpreter ELSE "",
                  order |-> IF reverse THEN Reversed(done.order) ELSE done.order] :
                   done \in { sort_run(K, p0, run) :
                                K \in { SubSeq([i \in 1..n |-> ks[i].ret], 1, n) },
                                run \in { count_run([i \in 1..n |-> ks[i].ret], p0) } } } :
               TRUE

list_sort(ks, p, reverse, interpreter) ==
    CHOOSE r \in { sort_keys(k, q, reverse, interpreter) : k \in {ks}, q \in {p} } : TRUE

\* The results of the function natsort_keygen(key, ...) returns, for the
\* elements of a list.
KeysOf(items, key, number_type, signed, exp, py3_safe) ==
    SubSeq([i \in 1..Len(items) |->
              _natsort_key(items[i], key, number_type, signed, exp, py3_safe, 0)],
           1, Len(items))

\* One sort of natsorted or index_natsorted, as the result records it.
Attempt(py3_safe, raised) == [py3_safe |-> py3_safe, raised |-> raised]

\* What a call gives after its first sort, and after its second.
AfterFirst(first) ==
    [raised |-> first.raised,
     order |-> IF first.raised = "" THEN first.order ELSE <<>>,
     attempts |-> << Attempt(FALSE, first.raised) >>]

AfterSecond(first, again) ==
    [raised |-> again.raised,
     order |-> IF again.raised = "" THEN again.order ELSE <<>>,
     attempts |-> << Attempt(FALSE, first.raised), Attempt(TRUE, again.raised) >>]

\* natsorted(seq, key, number_type, signed, exp, reverse): sorted with the
\* keys of natsort_keygen(key, number_type, signed, exp) and, when that raises
\* a TypeError that has 'unorderable types' in it, sorted with the keys of
\* natsort_keygen(key, number_type, signed, exp, True).  The result is the
\* order of the new list, in positions of seq.
natsorted_of(seq, key, number_type, signed, exp, reverse, interpreter) ==
    CHOOSE r \in
      { IF first.raised # "" /\ unorderable_types_in(first.raised)
        THEN AfterSecond(first,
               list_sort(KeysOf(seq, key, number_type, signed, exp, TRUE),
                         Identity(Len(seq)), reverse, interpreter))
        ELSE AfterFirst(first) :
          first \in { list_sort(KeysOf(seq, key, number_type, signed, exp, FALSE),
                                Identity(Len(seq)), reverse, interpreter) } } : TRUE

\* The key index_natsorted gives natsort_keygen.
newkey(key) == IF key = "None" THEN "itemgetter(1)" ELSE "upper(itemgetter(1)(x))"

\* [[x, y] for x, y in enumerate(seq)]
index_seq_pair(seq) ==
    [i \in 1..Len(seq) |->
        SeqVal(<< NumVal(MkNum("int", FALSE, IF i = 1 THEN <<>> ELSE << i - 1 >>, 0)),
                  seq[i] >>)]

\* index_natsorted(seq, key, number_type, signed, exp, reverse): the list of
\* pairs is sorted in place, so the second sort starts from the order the
\* first one left.  The result is the order of the pairs, in positions of seq.
index_natsorted_of(seq, key, number_type, signed, exp, reverse, interpreter) ==
    CHOOSE r \in
      { IF first.raised # "" /\ unorderable_types_in(first.raised)
        THEN AfterSecond(first,
               list_sort(KeysOf(index_seq_pair(seq), newkey(key), number_type,
                                signed, exp, TRUE),
                         first.order, reverse, interpreter))
        ELSE AfterFirst(first) :
          first \in { list_sort(KeysOf(index_seq_pair(seq), newkey(key), number_type,
                                       signed, exp, FALSE),
                                Identity(Len(seq)), reverse, interpreter) } } : TRUE

\* The sequence in the order it has.
order_by_index_asis(seq, index) == seq

\* [seq[i] for i in index], index a list of the indices of Python
order_by_index(seq, index) == [i \in 1..Len(index) |-> seq[index[i] + 1]]

(***************************************************************************)
(* The inputs of the model.                                                *)
(***************************************************************************)
Alphabet == {"1", "+", "-", ".", "e", "a"}

SeqsUpTo(S, n) == UNION { [1..m -> S] : m \in 0..n }

Strings == SeqsUpTo(Alphabet, MaxLen)

\* The strings of the documentation and of the profiling script.
Samples == {
    <<"n", "u", "m", "2">>,
    <<"1", "5", "a">>,
    <<"a", "1", "0">>,
    <<"4", "3", "h", "7", "+", "3">>,
    <<"n", "u", "m", "5", ".", "1", "0">>,
    <<"n", "u", "m", "-", "3">>,
    <<"3", ".", "5", "e", "5">>,
    <<"-", "4", "3", "4", ".", "9", "3", "e", "7">> }

Ten == MkNum("int", FALSE, <<1, 0>>, 0)
TwoAndAHalf == MkNum("float", FALSE, <<2, 5>>, -1)

Atoms == { NumVal(Ten), NumVal(TwoAndAHalf), NoneVal }

Leaves == { StrVal(<<"a", "1">>), StrVal(<<"1", "+", "1">>), NumVal(Ten), NoneVal }

\* d times: ('a1', v)
RECURSIVE Wrap(_, _)
Wrap(v, d) == IF d = 0 THEN v ELSE SeqVal(<< StrVal(<<"a", "1">>), Wrap(v, d - 1) >>)

Nested == { Wrap(SeqVal(items), d) : items \in SeqsUpTo(Leaves, MaxSeq),
                                     d \in 0..(MaxDepth - 1) }

SmallValues == { StrVal(s) : s \in Samples } \cup Atoms \cup Nested

AllValues == { StrVal(s) : s \in Strings } \cup SmallValues

\* Token lists for _py3_safe.
Tokens == { Text(<<>>), Text(<<"a">>), Numeric(Ten), Numeric(TwoAndAHalf) }

TokenLists == SeqsUpTo(Tokens, MaxTokens)

\* Strings of digits: the short ones, and 2^53 and 2^53 + 1.
DigitAlphabet == {"0", "1", "9"}

Pow53String ==
    <<"9", "0", "0", "7", "1", "9", "9", "2", "5", "4", "7", "4", "0", "9", "9", "2">>

Pow53PlusOneString ==
    <<"9", "0", "0", "7", "1", "9", "9", "2", "5", "4", "7", "4", "0", "9", "9", "3">>

BigDigitStrings == { Pow53String, Pow53PlusOneString }

DigitStrings == (SeqsUpTo(DigitAlphabet, MaxDigits) \ {<<>>}) \cup BigDigitStrings

Keys == {"None", "upper", "itemgetter(1)"}

NumberTypeValues == {"float", "int", "None", "str"}

FlagValues == {"True", "False", "1", "None", "[]"}

ValidNumberTypes == {"float", "int", "None"}

Flags == {"True", "False"}

NoGen == [made |-> FALSE, key |-> "None", number_type |-> "float", signed |-> "True",
          exp |-> "True", py3_safe |-> FALSE]

NoOut == [Raised("", 0, 0, 0) EXCEPT !.returned = "no call"]

NoCmp == [lt |-> "no call", gt |-> "no call"]

NoKeyed == [s |-> <<>>, key |-> <<>>]

\* What is sorted: strings whose keys have a string and a number at the same
\* place, strings with the same key, a number and None.
SortValues == { StrVal(<<"1", "a">>), StrVal(<<"1", "+", "1">>), StrVal(<<"+", "1">>),
                StrVal(<<"1">>), NumVal(Ten), NoneVal }

SortLists == SeqsUpTo(SortValues, MaxList)

SortKeys == {"None", "upper"}

SortNumberTypes == {"float", "int", "str"}

NoArgs == [called |-> FALSE, seq |-> <<>>, key |-> "None", number_type |-> "float",
           signed |-> "True", exp |-> "True", reverse |-> FALSE,
           interpreter |-> "TypeError: unorderable types"]

NoSorted == [called |-> FALSE, raised |-> "", result |-> <<>>, attempts |-> <<>>]

\* The twelve keys of the chooser.
ValidConfig(g) ==
    g.number_type \in ValidNumberTypes /\ g.signed \in Flags /\ g.exp \in Flags

\* The values the generated function is called with.
InputsFor(g) ==
    IF ValidConfig(g) /\ g.key = "None" THEN AllValues ELSE SmallValues

(***************************************************************************)
(* The state machine.  _natsort_key keeps no state between calls, so a      *)
(* behaviour makes one generator and calls it once.                        *)
(***************************************************************************)
Init ==
    /\ gen = NoGen
    /\ val = NoneVal
    /\ out = NoOut
    /\ parsed_list = <<>>
    /\ new_list = <<>>
    /\ left = NoKeyed
    /\ right = NoKeyed
    /\ cmp = NoCmp
    /\ sort_args = NoArgs
    /\ sorted_out = NoSorted
    /\ index_out = NoSorted

\* natsort_keygen(key, number_type, signed, exp, py3_safe): the partial
\* application of _natsort_key.
natsort_keygen(key, number_type, signed, exp, py3_safe) ==
    /\ ~gen.made
    /\ gen' = [made |-> TRUE, key |-> key, number_type |-> number_type,
               signed |-> signed, exp |-> exp, py3_safe |-> py3_safe]
    /\ val' = NoneVal
    /\ out' = NoOut
    /\ UNCHANGED <<parsed_list, new_list, left, right, cmp, sortvars>>

\* A call that binds safe mode in the generator it was made from.
KeyFn_rebinding(v) ==
    /\ gen.made
    /\ out.returned = "no call"
    /\ val' = v
    /\ out' = _natsort_key(v, gen.key, gen.number_type, gen.signed, gen.exp,
                           gen.py3_safe, 0)
    /\ gen' = [gen EXCEPT !.py3_safe = TRUE]
    /\ UNCHANGED <<parsed_list, new_list, left, right, cmp, sortvars>>

\* A call of the function natsort_keygen returned.
KeyFn(v) ==
    /\ gen.made
    /\ out.returned = "no call"
    /\ val' = v
    /\ out' = _natsort_key(v, gen.key, gen.number_type, gen.signed, gen.exp,
                           gen.py3_safe, 0)
    /\ UNCHANGED <<gen, parsed_list, new_list, left, right, cmp, sortvars>>

MakeValid ==
    ~gen.made /\ \E key \in Keys, number_type \in ValidNumberTypes, signed \in Flags,
       exp \in Flags, py3_safe \in BOOLEAN :
        natsort_keygen(key, number_type, signed, exp, py3_safe)

MakeAny ==
    ~gen.made /\ \E number_type \in NumberTypeValues, signed \in FlagValues, exp \in FlagValues :
        natsort_keygen("None", number_type, signed, exp, FALSE)

Call == gen.made /\ out.returned = "no call" /\ \E v \in InputsFor(gen) : KeyFn(v)

Next == MakeValid \/ MakeAny \/ Call

Spec == Init /\ [][Next]_vars
\* _py3_safe(parsed_list), called on its own.
Py3Safe(pl) ==
    /\ parsed_list = <<>>
    /\ parsed_list' = pl
    /\ new_list' = _py3_safe(pl)
    /\ UNCHANGED <<gen, val, out, left, right, cmp, sortvars>>

NextSafe == parsed_list = <<>> /\ \E pl \in TokenLists : Py3Safe(pl)

SpecSafe == Init /\ [][NextSafe]_vars

\* The comparison sorted makes of the keys of two strings a and b.
Keyed(s) ==
    [s |-> s,
     key |-> _natsort_key(StrVal(s), gen.key, gen.number_type, gen.signed,
                          gen.exp, gen.py3_safe, 0).ret]

Compare(a, b) ==
    /\ gen.made
    /\ cmp.lt = "no call"
    /\ left' = Keyed(a)
    /\ right' = Keyed(b)
    /\ cmp' = [lt |-> TupleLess(left'.key, right'.key),
               gt |-> TupleLess(right'.key, left'.key)]
    /\ UNCHANGED <<gen, val, out, parsed_list, new_list, sortvars>>

MakePlain ==
    ~gen.made /\ \E number_type \in ValidNumberTypes, signed \in Flags,
                    exp \in Flags, py3_safe \in BOOLEAN :
        natsort_keygen("None", number_type, signed, exp, py3_safe)

CompareDigits ==
    gen.made /\ cmp.lt = "no call" /\ \E a \in DigitStrings, b \in DigitStrings :
        Compare(a, b)

NextCmp == MakePlain \/ CompareDigits

SpecCmp == Init /\ [][NextCmp]_vars

\* natsorted(seq, key, number_type, signed, exp, reverse): the new list.
natsorted(seq, key, number_type, signed, exp, reverse, interpreter) ==
    /\ ~sort_args.called
    /\ sort_args' = [called |-> TRUE, seq |-> seq, key |-> key,
                     number_type |-> number_type, signed |-> signed, exp |-> exp,
                     reverse |-> reverse, interpreter |-> interpreter]
    /\ \E r \in { natsorted_of(seq, key, number_type, signed, exp, reverse,
                                interpreter) } :
          sorted_out' = [called |-> TRUE, raised |-> r.raised, attempts |-> r.attempts,
                         result |-> [i \in 1..Len(r.order) |-> seq[r.order[i]]]]
    /\ UNCHANGED <<gen, val, out, parsed_list, new_list, left, right, cmp, index_out>>

\* index_natsorted with the arguments natsorted had: the list of indices.
index_natsorted ==
    /\ sort_args.called
    /\ ~index_out.called
    /\ \E r \in { index_natsorted_of(sort_args.seq, sort_args.key,
                                      sort_args.number_type, sort_args.signed,
                                      sort_args.exp, sort_args.reverse,
                                      sort_args.interpreter) } :
          index_out' = [called |-> TRUE, raised |-> r.raised, attempts |-> r.attempts,
                        result |-> [i \in 1..Len(r.order) |-> r.order[i] - 1]]
    /\ UNCHANGED <<gen, val, out, parsed_list, new_list, left, right, cmp,
                   sort_args, sorted_out>>

SortList ==
    ~sort_args.called
    /\ \E seq \in SortLists, key \in SortKeys, number_type \in SortNumberTypes,
          signed \in Flags, reverse \in BOOLEAN, interpreter \in Interpreters :
        natsorted(seq, key, number_type, signed, "True", reverse, interpreter)

NextSort == SortList \/ index_natsorted

SpecSort == Init /\ [][NextSort]_vars
(***************************************************************************)
(* What the formulas below speak about.                                    *)
(***************************************************************************)
\* A call of the generated function has ended.
Called == out.returned # "no call"

\* The value _natsort_key works on: val after the key given to the generator.
Transformed == IF gen.key = "None" THEN Applied(val) ELSE ApplyKey(gen.key, val)

Worked == Transformed.val

\* The pattern the documentation gives for a configuration: digits, with a
\* fraction for float, with a leading sign when signed, with an exponent for
\* float when exp.
DocumentedPattern(number_type, signed, exp) ==
    [frac |-> number_type = "float",
     sign |-> number_type # "None" /\ signed = "True",
     exp |-> number_type = "float" /\ exp = "True"]

HasDigit(s) == \E i \in 1..Len(s) : IsDigit(s[i])

\* The number of + and - in a string.
SignCount(s) == Cardinality({ i \in 1..Len(s) : IsSign(s[i]) })

\* The number of + and - in the Text tokens of a key of tokens.
TextSignCount(k) ==
    Sum([i \in 1..Len(k) |-> IF k[i].ty = "text" THEN SignCount(k[i].s) ELSE 0])

(***************************************************************************)
(* C1.                                                                     *)
(***************************************************************************)
\* C1 as stated: for every valid configuration and every input value, the
\* first element of the Key is Text-typed.
C1_FirstElementIsText ==
    (Called /\ ValidConfig(gen) /\ out.returned = "key")
        => (out.ret # <<>> /\ out.ret[1].ty = "text")

\* Every key of tokens within k starts with a Text token, and a key of
\* sub-keys holds nothing but sub-keys.
RECURSIVE TokenKeysStartWithText(_)
TokenKeysStartWithText(k) ==
    IF k = <<>> \/ k[1].ty = "key"
    THEN \A i \in 1..Len(k) : k[i].ty = "key" /\ TokenKeysStartWithText(k[i].sub)
    ELSE k[1].ty = "text" /\ \A i \in 1..Len(k) : k[i].ty # "key"

\* C1 amended: for every valid configuration, the Key of a string or of an
\* atomic value starts with a Text token (a string that starts with a number
\* gets an empty Text token in front of the Numeric one); the Key of a sequence
\* is the sequence of the Keys of its elements, so that every Key of tokens at
\* any depth starts with a Text token, and no Key starts with a Numeric token.
C1_TokenKeysStartWithText ==
    (Called /\ ValidConfig(gen) /\ out.returned = "key") =>
        /\ TokenKeysStartWithText(out.ret)
        /\ Worked.tag # "seq" => (out.ret # <<>> /\ out.ret[1].ty = "text")
        /\ Worked.tag = "seq" => Len(out.ret) = Len(Worked.items)
        /\ (Worked.tag = "str"
            /\ regex_match(DocumentedPattern(gen.number_type, gen.signed, gen.exp),
                           Worked.s))
            => (out.ret[1] = Text(<<>>) /\ Len(out.ret) >= 2 /\ out.ret[2].ty = "num")
        /\ out.ret # <<>> => out.ret[1].ty # "num"

\* A string that starts with a number got the empty Text token.
C1_Witness ==
    /\ Called /\ ValidConfig(gen) /\ val.tag = "str" /\ gen.key = "None"
    /\ Len(val.s) >= 2 /\ IsDigit(val.s[1])
    /\ out.ret[1] = Text(<<>>) /\ out.ret[2].ty = "num"

(***************************************************************************)
(* C2.                                                                     *)
(***************************************************************************)
\* The places i of a list where tokens i-1 and i are both Numeric.
NumericPairs(l) ==
    { i \in 2..Len(l) : l[i - 1].ty = "num" /\ l[i].ty = "num" }

\* Where token i of parsed_list is to be found in new_list.
PlaceOf(i) == i + Cardinality({ j \in NumericPairs(parsed_list) : j <= i })

\* C2: _py3_safe applied to a token sequence with k adjacent Numeric-Numeric
\* pairs returns k more tokens, no two Numeric tokens adjacent; the added tokens
\* are empty Text tokens and the original tokens keep their order; a sequence
\* of fewer than two tokens is returned unchanged.
C2_SafeModeTokenCount ==
    /\ Len(new_list) = Len(parsed_list) + Cardinality(NumericPairs(parsed_list))
    /\ NumericPairs(new_list) = {}
    /\ \A i \in 1..Len(parsed_list) : new_list[PlaceOf(i)] = parsed_list[i]
    /\ \A p \in 1..Len(new_list) :
          (\A i \in 1..Len(parsed_list) : PlaceOf(i) # p) => new_list[p] = Text(<<>>)
    /\ Len(parsed_list) < 2 => new_list = parsed_list

\* Three numbers in a row got two empty strings.
C2_Witness ==
    /\ Cardinality(NumericPairs(parsed_list)) >= 2
    /\ Len(new_list) = Len(parsed_list) + 2

(***************************************************************************)
(* C3.                                                                     *)
(***************************************************************************)
\* The fields of the configuration whose value is none the chooser knows.
InvalidFields(g) ==
    (IF g.number_type \in ValidNumberTypes THEN {} ELSE {"number_type"})
    \cup (IF PyEq(g.signed, "True") \/ PyEq(g.signed, "False") THEN {} ELSE {"signed"})
    \cup (IF PyEq(g.exp, "True") \/ PyEq(g.exp, "False") THEN {} ELSE {"exp"})

ConfigurationErrors ==
    [number_type |-> "ValueError: 'number_type' invalid",
     signed |-> "ValueError: 'signed' invalid",
     exp |-> "ValueError: 'exp' invalid"]

\* C3: a (number_type, signed, exp) that is not one of the twelve valid
\* combinations makes the call fail with a configuration error that names an
\* invalid field, and no Key is returned; a valid one raises no such error.
C3_ConfigurationError ==
    Called =>
        IF InvalidFields(gen) = {}
        THEN out.raised \notin { ConfigurationErrors[f] :
                                   f \in {"number_type", "signed", "exp"} }
        ELSE /\ \E f \in InvalidFields(gen) : out.raised = ConfigurationErrors[f]
             /\ out.returned = "nothing"
(***************************************************************************)
(* C4.                                                                     *)
(***************************************************************************)
Compared == cmp.lt # "no call"

\* Digit i of the string of digits a written with n digits.
PadDigit(a, i, n) ==
    IF i <= n - Len(a) THEN 0 ELSE DigitValue(a[i - (n - Len(a))])

\* int(a) < int(b), read off the digits: written with as many digits, a has
\* the smaller digit at the first place where they differ.
IntLess(a, b) ==
    LET n == IF Len(a) > Len(b) THEN Len(a) ELSE Len(b)
    IN  \E i \in 1..n :
            /\ PadDigit(a, i, n) < PadDigit(b, i, n)
            /\ \A j \in 1..(i - 1) : PadDigit(a, j, n) = PadDigit(b, j, n)

\* int(a) <= 2^53
AtMostPow53(a) == ~IntLess(Pow53String, a)

\* C4 as stated: for strings a and b of digits, of any length,
\* key(a) < key(b) if and only if int(a) < int(b).
C4_KeyOrderIsIntOrder ==
    Compared => ((cmp.lt = "True") <=> IntLess(left.s, right.s))

\* C4 amended: the key of a string of digits is ['', number].  With
\* number_type int or None, key(a) < key(b) if and only if int(a) < int(b), at
\* any length.  With number_type float the numbers are floats: key(a) < key(b)
\* implies int(a) < int(b), int(a) < int(b) implies key(a) <= key(b), and the
\* two are equivalent when neither value exceeds 2^53.
C4_KeyOrderIsNumberOrder ==
    Compared =>
        /\ cmp.lt \in {"True", "False"} /\ cmp.gt \in {"True", "False"}
        /\ Len(left.key) = 2 /\ left.key[1] = Text(<<>>) /\ left.key[2].ty = "num"
        /\ gen.number_type \in {"int", "None"}
            => ((cmp.lt = "True") <=> IntLess(left.s, right.s))
        /\ gen.number_type = "float"
            => /\ cmp.lt = "True" => IntLess(left.s, right.s)
               /\ IntLess(left.s, right.s) => cmp.gt = "False"
               /\ (AtMostPow53(left.s) /\ AtMostPow53(right.s))
                   => ((cmp.lt = "True") <=> IntLess(left.s, right.s))

\* With int, 2^53 sorts before 2^53 + 1.
C4_Witness ==
    /\ Compared /\ gen.number_type = "int"
    /\ left.s = Pow53String /\ right.s = Pow53PlusOneString
    /\ cmp.lt = "True"

(***************************************************************************)
(* C5.                                                                     *)
(***************************************************************************)
\* C5: for every valid configuration, safe mode or not, the key of a string
\* without a digit is the one Text token that holds the string unchanged.
C5_NoDigitKey ==
    (Called /\ ValidConfig(gen) /\ Transformed.raised = ""
     /\ Worked.tag = "str" /\ ~HasDigit(Worked.s))
        => (out.raised = "" /\ out.returned = "key" /\ out.ret = << Text(Worked.s) >>)

\* A string of signs, point and e, in safe mode.
C5_Witness ==
    /\ Called /\ ValidConfig(gen) /\ gen.py3_safe /\ gen.key = "None"
    /\ val = StrVal(<<"+", ".", "e", "-">>)
    /\ out.ret = << Text(<<"+", ".", "e", "-">>) >>

(***************************************************************************)
(* C6.                                                                     *)
(***************************************************************************)
\* C6: in one call with a valid configuration and a key, the key is applied
\* exactly once, to the top-level value, and never below the top level.
C6_KeyAppliedOnceAtTop ==
    (Called /\ ValidConfig(gen) /\ gen.key # "None")
        => (out.key_calls = 1 /\ out.deep_key_calls = 0)

\* The key gave a sequence that holds a sequence, and a Key was returned.
C6_Witness ==
    /\ Called /\ ValidConfig(gen) /\ gen.key = "itemgetter(1)"
    /\ out.returned = "key" /\ Worked.tag = "seq"
    /\ \E i \in 1..Len(Worked.items) : Worked.items[i].tag = "seq"
    /\ out.key_calls = 1

(***************************************************************************)
(* C7.                                                                     *)
(***************************************************************************)
\* The Key of v on its own: the same configuration, no key.
KeyAlone(v) ==
    _natsort_key(v, "None", gen.number_type, gen.signed, gen.exp, gen.py3_safe, 0).ret

\* C7: the Key of a sequence of n elements is a sequence of n sub-Keys in the
\* same order, the i-th being the Key the same configuration, with no key,
\* gives for the i-th element on its own.
C7_SequenceKey ==
    (Called /\ ValidConfig(gen) /\ Transformed.raised = "" /\ Worked.tag = "seq")
        => /\ out.returned = "key"
           /\ Len(out.ret) = Len(Worked.items)
           /\ \A i \in 1..Len(Worked.items) :
                  out.ret[i] = SubKey(KeyAlone(Worked.items[i]))

\* Two elements with different Keys, the second a sequence.
C7_Witness ==
    /\ Called /\ ValidConfig(gen) /\ val.tag = "seq" /\ Len(val.items) = 2
    /\ val.items[2].tag = "seq" /\ val.items[2].items # <<>>
    /\ out.returned = "key" /\ Len(out.ret) = 2
    /\ out.ret[1] # out.ret[2]
    /\ out.ret[1] = SubKey(KeyAlone(val.items[1]))

(***************************************************************************)
(* C8.                                                                     *)
(***************************************************************************)
\* The token that is the atomic value v itself.
Itself(v) == IF v.tag = "num" THEN Numeric(v.n) ELSE NoneTok

\* In the key k of v, every atomic value has the key ['', value].
RECURSIVE AtomsAsTheyAre(_, _)
AtomsAsTheyAre(v, k) ==
    CASE v.tag = "seq" -> /\ Len(k) = Len(v.items)
                          /\ \A i \in 1..Len(k) :
                                /\ k[i].ty = "key"
                                /\ AtomsAsTheyAre(v.items[i], k[i].sub)
      [] v.tag = "str" -> TRUE
      [] OTHER -> k = << Text(<<>>), Itself(v) >>

RECURSIVE HasAtom(_)
HasAtom(v) ==
    CASE v.tag = "seq" -> \E i \in 1..Len(v.items) : HasAtom(v.items[i])
      [] v.tag = "str" -> FALSE
      [] OTHER -> TRUE

\* C8: for every valid configuration the key of a value that is neither a
\* string nor a sequence, at the top level or within nested sequences, is
\* ['', value], the value unchanged, and no error is raised.
C8_AtomicKey ==
    (Called /\ ValidConfig(gen) /\ Transformed.raised = "" /\ HasAtom(Worked))
        => (out.raised = "" /\ out.returned = "key" /\ AtomsAsTheyAre(Worked, out.ret))

\* The number 10 two sequences deep.
C8_Witness ==
    /\ Called /\ ValidConfig(gen) /\ gen.key = "None" /\ gen.number_type = "float"
    /\ val.tag = "seq" /\ Len(val.items) = 2 /\ val.items[2].tag = "seq"
    /\ Len(val.items[2].items) >= 1 /\ val.items[2].items[1] = NumVal(Ten)
    /\ out.returned = "key"
    /\ out.ret[2].sub[1].sub = << Text(<<>>), Numeric(Ten) >>

(***************************************************************************)
(* C9.                                                                     *)
(***************************************************************************)
\* C9: whatever signed and exp are, number_type None gives the key that
\* number_type int with signed False gives.
C9_NoneIsUnsignedInt ==
    (Called /\ ValidConfig(gen) /\ gen.number_type = "None")
        => \A exp \in Flags :
              LET other == _natsort_key(val, gen.key, "int", "False", exp,
                                        gen.py3_safe, 0)
              IN  other.ret = out.ret /\ other.raised = out.raised
                  /\ other.returned = out.returned

\* With None and signed True the sign stays text.
C9_Witness ==
    /\ Called /\ gen.number_type = "None" /\ gen.signed = "True" /\ gen.key = "None"
    /\ val = StrVal(<<"a", "-", "1">>)
    /\ out.ret = << Text(<<"a", "-">>), Numeric(MkNum("int", FALSE, <<1>>, 0)) >>

(***************************************************************************)
(* C10.                                                                    *)
(***************************************************************************)
\* C10: when signed is False, whatever number_type and exp are, no + or - of
\* the input is part of a Numeric token: every sign is in a Text token.
C10_UnsignedKeepsSigns ==
    (Called /\ ValidConfig(gen) /\ gen.signed = "False" /\ Transformed.raised = ""
     /\ Worked.tag = "str")
        => TextSignCount(out.ret) = SignCount(Worked.s)

(***************************************************************************)
(* C11.                                                                    *)
(***************************************************************************)
\* The number of calls of _natsort_key the value v takes: one, and those of
\* the elements of a sequence.
RECURSIVE Calls(_)
Calls(v) ==
    IF v.tag = "seq"
    THEN 1 + Sum([i \in 1..Len(v.items) |-> Calls(v.items[i])])
    ELSE 1

\* C11 as stated: the pattern is resolved once, when natsort_keygen makes the
\* generator, and a call of the generated function does not resolve it again.
C11_ResolvedAtConstruction == Called => out.lookups = 0

\* C11 amended: natsort_keygen binds the configuration and resolves nothing,
\* whatever the configuration; every call of the generated function looks the
\* pattern up, once for the value and once more for every element at every
\* depth of a sequence (once only when the call raises); and no call changes
\* the configuration bound in the generator.
C11_ResolvedAtEveryCall ==
    /\ []((gen.made /\ ~Called) => (out.lookups = 0 /\ out.raised = ""))
    /\ []((Called /\ out.raised = "") => out.lookups = Calls(Worked))
    /\ []((Called /\ out.raised # "") => out.lookups = 1)
    /\ [][gen.made => gen' = gen]_vars

\* A call on a sequence within a sequence looked the pattern up five times.
C11_Witness ==
    /\ Called /\ gen.key = "None" /\ ~gen.py3_safe /\ out.returned = "key"
    /\ val.tag = "seq" /\ Len(val.items) = 2 /\ val.items[2].tag = "seq"
    /\ Len(val.items[2].items) = 2 /\ val.items[2].items[2].tag # "seq"
    /\ out.lookups = 5

(***************************************************************************)
(* C12.                                                                    *)
(***************************************************************************)
\* C12: for every sequence and the same key, number_type, signed, exp and
\* reverse, index_natsorted raises what natsorted raises, and when they return
\* index_natsorted returns a permutation of the indices 0..len(seq)-1 and
\* order_by_index(seq, index_natsorted(seq, ...)) equals natsorted(seq, ...).
C12_IndexOrdersAsNatsorted ==
    index_out.called =>
        /\ index_out.raised = sorted_out.raised
        /\ index_out.raised = "" =>
              /\ Len(index_out.result) = Len(sort_args.seq)
              /\ { index_out.result[i] : i \in 1..Len(index_out.result) }
                    = 0..(Len(sort_args.seq) - 1)
              /\ order_by_index(sort_args.seq, index_out.result) = sorted_out.result

\* Three strings sorted in reverse by a second sort, the first having
\* failed: the order is not the order of the input.
C12_Witness ==
    /\ index_out.called /\ index_out.raised = "" /\ sort_args.reverse
    /\ Len(sort_args.seq) = 3 /\ Len(index_out.attempts) = 2
    /\ \A i \in 1..3 : sort_args.seq[i].tag = "str"
    /\ index_out.result # <<0, 1, 2>>
    /\ order_by_index(sort_args.seq, index_out.result) = sorted_out.result

(***************************************************************************)
(* C13.                                                                    *)
(***************************************************************************)
\* The error is the TypeError of a comparison of two types without an order.
TypeMismatch(e) == e \in Interpreters

\* What C13 says of the sorts a call made.
RetryPolicy(o) ==
    /\ Len(o.attempts) \in {1, 2}
    /\ ~o.attempts[1].py3_safe
    /\ Len(o.attempts) = 2
          => /\ TypeMismatch(o.attempts[1].raised)
             /\ o.attempts[2].py3_safe
             /\ o.raised = o.attempts[2].raised
    /\ Len(o.attempts) = 1 => o.raised = o.attempts[1].raised
    /\ (o.attempts[1].raised # "" /\ ~TypeMismatch(o.attempts[1].raised))
          => Len(o.attempts) = 1
    /\ Len(o.attempts) = 2 <=> o.attempts[1].raised = "TypeError: unorderable types"
    /\ o.raised # "" => o.result = <<>>

\* C13: natsorted and index_natsorted sort first with the keys of safe mode
\* off; only if that sort fails with the TypeError of a comparison (and its
\* message has 'unorderable types' in it) do they sort again, once, with the
\* keys of safe mode on; the failure of the second sort is raised without a
\* third sort, and any other error is raised without a second sort.
C13_RetryOnceInSafeMode ==
    /\ sorted_out.called => RetryPolicy(sorted_out)
    /\ index_out.called => RetryPolicy(index_out)

\* Both sorts of natsorted and of index_natsorted failed on None and a
\* number, and the error of the second is what the caller gets.
C13_Witness ==
    /\ index_out.called
    /\ Len(sorted_out.attempts) = 2 /\ Len(index_out.attempts) = 2
    /\ TypeMismatch(sorted_out.raised) /\ TypeMismatch(index_out.raised)
    /\ \E i \in 1..Len(sort_args.seq) : sort_args.seq[i] = NoneVal

(***************************************************************************)
(* C14.                                                                    *)
(***************************************************************************)
\* The tokens of k are a Text, a Numeric, a Text, a Numeric, ...
Alternates(k) ==
    \A i \in 1..Len(k) : k[i].ty = IF i % 2 = 1 THEN "text" ELSE "num"

\* Strings to compare a string with: a number and then a letter, a sign or a
\* point, and a letter first.
Partners == { <<"1", "a">>, <<"1", "+", "1">>, <<"1", ".", "1">>, <<"a", "1">> }

\* natsorted of the two strings s and t, in this order, under the
\* configuration of the generator and an interpreter that words the TypeError
\* of a comparison so that natsorted sorts again.
SortedPair(s, t) ==
    natsorted_of(<< StrVal(s), StrVal(t) >>, "None", gen.number_type, gen.signed,
                 gen.exp, FALSE, "TypeError: unorderable types")

\* C14: with safe mode on and a valid configuration, the key of a string has
\* a Text token at every even index (0, 2, ...) and a Numeric token at every
\* odd index; so its tokens have the types of the tokens of the key of any
\* other string at the places they share, comparing the two keys raises no
\* TypeError, and natsorted of the two strings does not fail.
C14_SafeKeysAlternate ==
    (Called /\ ValidConfig(gen) /\ gen.py3_safe /\ Transformed.raised = ""
     /\ Worked.tag = "str")
        => /\ out.returned = "key"
           /\ Alternates(out.ret)
           /\ \A s \in Partners :
                 /\ TupleLess(out.ret, KeyAlone(StrVal(s))) \in {"True", "False"}
                 /\ SortedPair(Worked.s, s).raised = ""

\* 1+1 with signed integers: two numbers in a row got '' between them, and
\* natsorted of 1+1 and 1a needed the second sort.
C14_Witness ==
    /\ Called /\ gen.py3_safe /\ gen.number_type = "int" /\ gen.signed = "True"
    /\ gen.key = "None" /\ val = StrVal(<<"1", "+", "1">>)
    /\ out.ret = << Text(<<>>), Numeric(MkNum("int", FALSE, <<1>>, 0)),
                    Text(<<>>), Numeric(MkNum("int", FALSE, <<1>>, 0)) >>
    /\ Len(SortedPair(val.s, <<"1", "a">>).attempts) = 2
    /\ SortedPair(val.s, <<"1", "a">>).raised = ""
====
